---- MODULE Spec2Model ----
(***************************************************************************)
(* The external pose ingestion subsystem of sibr_3Dhierarchy: the UDP      *)
(* listener thread (runUDPServer), the shared slot cameraTransform guarded *)
(* by cameraTransformMutex, the atomics _running and _newData, and the     *)
(* part of main that starts the listener, consumes the slot once per frame *)
(* and joins the listener at exit.                                         *)
(*                                                                         *)
(* Every action is one step of one thread between two points where the     *)
(* other thread can observe or change shared state.  A datagram arriving   *)
(* (ListenerReceive, ListenerReceiveError) and the user closing the window *)
(* (MainPoll) are the environment's choices.                               *)
(***************************************************************************)
EXTENDS Integers, Sequences, FiniteSets

(* Bounds of the model *)
\* coordinates a valid message can carry: 1..MaxCoord
MaxCoord == 2
\* datagrams the network delivers in one run
MaxDatagrams == 2

Coords == 1..MaxCoord

(***************************************************************************)
(* Datagrams.  A JSON value is its type and, for a number, its value; a    *)
(* datagram is what the payload is as a whole (kind) and, for a JSON       *)
(* object, the values under "position" and "rotation".  The x,y,z of a     *)
(* position (w,x,y,z of a rotation) are one value here: the listener       *)
(* converts them together and stores them with one assignment.             *)
(***************************************************************************)
Num(n) == [type |-> "number", v |-> n]
Null == [type |-> "null", v |-> 0]
Str == [type |-> "string", v |-> 0]

Datagram(k, p, q) == [kind |-> k, position |-> p, rotation |-> q]

\* {"position":{...},"rotation":{...}} with numeric fields
ValidDatagrams == { Datagram("json", Num(p), Num(q)) : p \in Coords, q \in Coords }

\* a JSON object with a field missing (operator[] yields null) or non-numeric
BadFieldDatagrams ==
    { Datagram("json", b, Num(1)) : b \in {Null, Str} }
        \cup { Datagram("json", Num(1), b) : b \in {Null, Str} }

\* bytes that are no JSON text; an empty datagram; a datagram longer than data[]
GarbageDatagram == Datagram("garbage", Null, Null)
EmptyDatagram == Datagram("empty", Null, Null)
OversizeDatagram == Datagram("oversize", Num(1), Num(1))

Datagrams ==
    ValidDatagrams \cup BadFieldDatagrams
        \cup {GarbageDatagram, EmptyDatagram, OversizeDatagram}

NoDatagram == Datagram("none", Null, Null)

\* socket.receive_from into char data[1024]: a longer datagram is cut to the
\* buffer, which leaves a JSON text without its end
ReceivedData(d) == IF d.kind = "oversize" THEN Datagram("cut", d.position, d.rotation) ELSE d

\* json::parse and the conversions of lines 92-105: "ok", or the exception thrown
DecodeResult(d) ==
    IF d.kind # "json" THEN "parse_error"
    ELSE IF d.position.type # "number" THEN "type_error"
    ELSE IF d.rotation.type # "number" THEN "type_error"
    ELSE "ok"

WellFormed(d) == DecodeResult(d) = "ok"

(* The shared slot: std::shared_ptr<CameraTransform>, nullptr at first *)
NullTransform == [allocated |-> FALSE, position |-> 0, rotation |-> 0]
\* make_shared<CameraTransform>(): the fields are not initialised
NewTransform == [allocated |-> TRUE, position |-> 0, rotation |-> 0]

Pose(p, q) == <<p, q>>
NoPose == <<>>

VARIABLES
    udpEnabled,       \* main: bool udpEnabled = myArgs.tcpEnabled
    _running,         \* std::atomic<bool> _running
    _newData,         \* std::atomic<bool> _newData
    cameraTransform,  \* the shared slot
    mutex,            \* cameraTransformMutex: "free", "listener" or "main"
    mpc,              \* main's position
    lpc,              \* the listener thread's position
    windowOpen,       \* window.isOpened()
    cameraMode,       \* generalCamera's mode
    cameraPose,       \* the pose last given to generalCamera->updateCameraTransform
    argPosition,      \* main: the position read from the slot for the call
    argRotation,      \* main: the rotation read from the slot for the call
    error,            \* listener: asio::error_code error (set or not)
    data,             \* listener: data[0..length)
    position,         \* listener: sibr::Vector3f position
    rotation,         \* listener: sibr::Quaternionf rotation
    exitCause,        \* why runUDPServer returned: "none", "stop", "bind", "exception"
    nrecv,            \* history: datagrams delivered so far
    received,         \* history: the poses of the valid messages received
    lastWritten,      \* history: the message that last overwrote the slot in full
    published,        \* history: messages published in full (slot and flag), count and last
    seenAtCheck,      \* history: published, as it was when main last tested _newData
    unread            \* history: the slot holds a message that no consume has read

vars ==
    <<udpEnabled, _running, _newData, cameraTransform, mutex, mpc, lpc, windowOpen,
      cameraMode, cameraPose, argPosition, argRotation, error, data, position,
      rotation, exitCause, nrecv, received, lastWritten, published, seenAtCheck,
      unread>>

sharedVars == <<_running, _newData, cameraTransform, mutex>>
mainVars == <<mpc, windowOpen, cameraMode, cameraPose, argPosition, argRotation>>
listenerVars == <<lpc, error, data, position, rotation, exitCause>>
historyVars == <<nrecv, received, lastWritten, published, seenAtCheck, unread>>

NonePublished == [n |-> 0, last |-> NoPose]

Init ==
    /\ udpEnabled \in BOOLEAN
    /\ _running = FALSE
    /\ _newData = FALSE
    /\ cameraTransform = NullTransform
    /\ mutex = "free"
    /\ mpc = "start"
    /\ lpc = "not_started"
    /\ windowOpen = TRUE
    /\ cameraMode = "interactive"
    /\ cameraPose = NoPose
    /\ argPosition = 0
    /\ argRotation = 0
    /\ error = FALSE
    /\ data = NoDatagram
    /\ position = 0
    /\ rotation = 0
    /\ exitCause = "none"
    /\ nrecv = 0
    /\ received = {}
    /\ lastWritten = NoPose
    /\ published = NonePublished
    /\ seenAtCheck = NonePublished
    /\ unread = FALSE

(***************************************************************************)
(* The listener thread: runUDPServer and updateCameraTransform             *)
(***************************************************************************)


\* ListenerBind with the failed bind ignored: the loop is entered without a socket
ListenerBind_FailureIgnored ==
    /\ lpc = "bind"
    /\ \E bound \in BOOLEAN :
        IF bound
        THEN lpc' = "while" /\ exitCause' = exitCause
        ELSE lpc' = "while" /\ exitCause' = "bind"
    /\ UNCHANGED <<udpEnabled, sharedVars, mainVars, error, data, position, rotation,
                   historyVars>>

\* lines 75-76: the socket's constructor opens and binds port 4444; when the bind
\* fails it throws, and the catch of line 114 logs and the function returns
ListenerBind ==
    /\ lpc = "bind"
    /\ \E bound \in BOOLEAN :
        IF bound
        THEN lpc' = "while" /\ exitCause' = exitCause
        ELSE lpc' = "returned" /\ exitCause' = "bind"
    /\ UNCHANGED <<udpEnabled, sharedVars, mainVars, error, data, position, rotation,
                   historyVars>>


\* ListenerWhile as while (true): the running flag is not read
ListenerWhile_FlagIgnored ==
    /\ lpc = "while"
    /\ lpc' = "receive" /\ error' = FALSE /\ exitCause' = exitCause
    /\ UNCHANGED <<udpEnabled, sharedVars, mainVars, data, position, rotation,
                   historyVars>>

\* line 83: while (_running); line 84 declares a fresh error_code
ListenerWhile ==
    /\ lpc = "while"
    /\ IF _running
       THEN lpc' = "receive" /\ error' = FALSE /\ exitCause' = exitCause
       ELSE lpc' = "returned" /\ error' = error /\ exitCause' = "stop"
    /\ UNCHANGED <<udpEnabled, sharedVars, mainVars, data, position, rotation,
                   historyVars>>

\* line 85: the blocking receive_from returns a datagram the network delivered
ListenerReceive ==
    /\ lpc = "receive"
    /\ nrecv < MaxDatagrams
    /\ \E d \in Datagrams :
        /\ data' = ReceivedData(d)
        /\ received' = IF WellFormed(d)
                       THEN received \cup {Pose(d.position.v, d.rotation.v)}
                       ELSE received
    /\ error' = FALSE
    /\ nrecv' = nrecv + 1
    /\ lpc' = "received"
    /\ UNCHANGED <<udpEnabled, sharedVars, mainVars, position, rotation, exitCause,
                   lastWritten, published, seenAtCheck, unread>>

\* line 85: receive_from returns with the error code set and length 0 (also what a
\* platform that reports an oversize datagram as an error does with it)
ListenerReceiveError ==
    /\ lpc = "receive"
    /\ error' = TRUE
    /\ data' = NoDatagram
    /\ lpc' = "received"
    /\ UNCHANGED <<udpEnabled, sharedVars, mainVars, position, rotation, exitCause,
                   historyVars>>


\* ListenerBranch with the throwing overload of receive_from: an error is an
\* exception, caught outside the loop
ListenerBranch_ErrorThrows ==
    /\ lpc = "received"
    /\ lpc' = IF error THEN "returned"
              ELSE IF data.kind \notin {"none", "empty"} THEN "parse" ELSE "while"
    /\ exitCause' = IF error THEN "exception" ELSE exitCause
    /\ UNCHANGED <<udpEnabled, sharedVars, mainVars, error, data, position, rotation,
                   historyVars>>

\* lines 87, 110-112: the branches on error and length
ListenerBranch ==
    /\ lpc = "received"
    /\ lpc' = IF ~error /\ data.kind \notin {"none", "empty"} THEN "parse" ELSE "while"
    /\ UNCHANGED <<udpEnabled, sharedVars, mainVars, error, data, position, rotation,
                   exitCause, historyVars>>


\* ListenerDecode converting the position straight into the slot, before the
\* rotation is converted
ListenerDecode_PositionIntoSlot ==
    /\ lpc = "parse"
    /\ IF WellFormed(data)
       THEN /\ position' = data.position.v
            /\ rotation' = data.rotation.v
            /\ lpc' = "update_lock"
            /\ exitCause' = exitCause
            /\ cameraTransform' = cameraTransform
       ELSE /\ lpc' = "returned"
            /\ exitCause' = "exception"
            /\ cameraTransform' =
                  IF data.kind = "json" /\ data.position.type = "number"
                  THEN [NewTransform EXCEPT !.position = data.position.v,
                                            !.rotation = cameraTransform.rotation]
                  ELSE cameraTransform
            /\ UNCHANGED <<position, rotation>>
    /\ UNCHANGED <<udpEnabled, _running, _newData, mutex, mainVars, error, data,
                   historyVars>>

\* lines 88-105: json::parse and the conversions to position and rotation; an
\* exception leaves the while loop for the catch of line 114 and the function returns
ListenerDecode ==
    /\ lpc = "parse"
    /\ IF WellFormed(data)
       THEN /\ position' = data.position.v
            /\ rotation' = data.rotation.v
            /\ lpc' = "update_lock"
            /\ exitCause' = exitCause
       ELSE /\ lpc' = "returned"
            /\ exitCause' = "exception"
            /\ UNCHANGED <<position, rotation>>
    /\ UNCHANGED <<udpEnabled, sharedVars, mainVars, error, data, historyVars>>


\* ListenerLock with the dirty flag set before the slot is written
ListenerLock_SignalsFirst ==
    /\ lpc = "update_lock"
    /\ mutex = "free"
    /\ mutex' = "listener"
    /\ _newData' = TRUE
    /\ lpc' = "update_position"
    /\ UNCHANGED <<udpEnabled, _running, cameraTransform, mainVars, error,
                   data, position, rotation, exitCause, historyVars>>

\* line 54: std::lock_guard lock(cameraTransformMutex)
ListenerLock ==
    /\ lpc = "update_lock"
    /\ mutex = "free"
    /\ mutex' = "listener"
    /\ lpc' = "update_position"
    /\ UNCHANGED <<udpEnabled, _running, _newData, cameraTransform, mainVars, error,
                   data, position, rotation, exitCause, historyVars>>


\* ListenerWritePosition as translateCamera (line 69): position += translation
ListenerWritePosition_Translate ==
    /\ lpc = "update_position"
    /\ cameraTransform' =
          [(IF cameraTransform.allocated THEN cameraTransform ELSE NewTransform)
              EXCEPT !.position = @ + position]
    /\ lpc' = "update_rotation"
    /\ UNCHANGED <<udpEnabled, _running, _newData, mutex, mainVars, error, data,
                   position, rotation, exitCause, historyVars>>

\* lines 55-58: create the slot if there is none, then cameraTransform->position = transform
ListenerWritePosition ==
    /\ lpc = "update_position"
    /\ cameraTransform' =
          [(IF cameraTransform.allocated THEN cameraTransform ELSE NewTransform)
              EXCEPT !.position = position]
    /\ lpc' = "update_rotation"
    /\ UNCHANGED <<udpEnabled, _running, _newData, mutex, mainVars, error, data,
                   position, rotation, exitCause, historyVars>>

\* line 59: cameraTransform->rotation = rotation
ListenerWriteRotation ==
    /\ lpc = "update_rotation"
    /\ cameraTransform' = [cameraTransform EXCEPT !.rotation = rotation]
    /\ lastWritten' = Pose(position, rotation)
    /\ unread' = TRUE
    /\ lpc' = "update_unlock"
    /\ UNCHANGED <<udpEnabled, _running, _newData, mutex, mainVars, error, data,
                   position, rotation, exitCause, nrecv, received, published,
                   seenAtCheck>>


\* ListenerUnlock with the mutex locked by hand and not unlocked on return
ListenerUnlock_KeepsLock ==
    /\ lpc = "update_unlock"
    /\ lpc' = "set_newData"
    /\ UNCHANGED <<udpEnabled, sharedVars, mainVars, error, data, position, rotation,
                   exitCause, historyVars>>

\* line 60: the lock_guard's destructor
ListenerUnlock ==
    /\ lpc = "update_unlock"
    /\ mutex' = "free"
    /\ lpc' = "set_newData"
    /\ UNCHANGED <<udpEnabled, _running, _newData, cameraTransform, mainVars, error,
                   data, position, rotation, exitCause, historyVars>>


\* ListenerSetNewData with the listener also stopping itself
ListenerSetNewData_ClearsRunning ==
    /\ lpc = "set_newData"
    /\ _newData' = TRUE
    /\ _running' = FALSE
    /\ published' = [n |-> published.n + 1, last |-> Pose(position, rotation)]
    /\ lpc' = "while"
    /\ UNCHANGED <<udpEnabled, cameraTransform, mutex, mainVars, error, data,
                   position, rotation, exitCause, nrecv, received, lastWritten,
                   seenAtCheck, unread>>

\* line 109: _newData = true
ListenerSetNewData ==
    /\ lpc = "set_newData"
    /\ _newData' = TRUE
    /\ published' = [n |-> published.n + 1, last |-> Pose(position, rotation)]
    /\ lpc' = "while"
    /\ UNCHANGED <<udpEnabled, _running, cameraTransform, mutex, mainVars, error, data,
                   position, rotation, exitCause, nrecv, received, lastWritten,
                   seenAtCheck, unread>>

\* the steps the listener takes by itself
ListenerStep ==
    \/ ListenerBind
    \/ ListenerWhile
    \/ ListenerBranch
    \/ ListenerDecode
    \/ ListenerLock
    \/ ListenerWritePosition
    \/ ListenerWriteRotation
    \/ ListenerUnlock
    \/ ListenerSetNewData

\* the returns of the blocking receive, which the network decides
ListenerReceiveReturns ==
    \/ ListenerReceive
    \/ ListenerReceiveError

(***************************************************************************)
(* main                                                                    *)
(***************************************************************************)


\* MainStartUDP without the test of udpEnabled
MainStartUDP_Unconditional ==
    /\ mpc = "start"
    /\ _running' = TRUE
    /\ lpc' = "bind"
    /\ mpc' = "switch_mode"
    /\ UNCHANGED <<udpEnabled, _newData, cameraTransform, mutex, windowOpen, cameraMode,
                   cameraPose, argPosition, argRotation, error, data, position,
                   rotation, exitCause, historyVars>>

\* lines 220-225: with udpEnabled, _running = true and the thread is started
MainStartUDP ==
    /\ mpc = "start"
    /\ IF udpEnabled
       THEN /\ _running' = TRUE
            /\ lpc' = "bind"
            /\ mpc' = "switch_mode"
       ELSE /\ mpc' = "while"
            /\ UNCHANGED <<_running, lpc>>
    /\ UNCHANGED <<udpEnabled, _newData, cameraTransform, mutex, windowOpen, cameraMode,
                   cameraPose, argPosition, argRotation, error, data, position,
                   rotation, exitCause, historyVars>>


\* MainSwitchMode without the call of switchMode
MainSwitchMode_Skipped ==
    /\ mpc = "switch_mode"
    /\ mpc' = "while"
    /\ UNCHANGED <<udpEnabled, sharedVars, windowOpen, cameraMode, cameraPose,
                   argPosition, argRotation, listenerVars, historyVars>>

\* line 228: generalCamera->switchMode(InteractiveCameraHandler::JSON)
MainSwitchMode ==
    /\ mpc = "switch_mode"
    /\ cameraMode' = "JSON"
    /\ mpc' = "while"
    /\ UNCHANGED <<udpEnabled, sharedVars, windowOpen, cameraPose, argPosition,
                   argRotation, listenerVars, historyVars>>

\* line 232: while (window.isOpened())
MainWhile ==
    /\ mpc = "while"
    /\ mpc' = IF windowOpen THEN "poll" ELSE "cleanup"
    /\ UNCHANGED <<udpEnabled, sharedVars, windowOpen, cameraMode, cameraPose,
                   argPosition, argRotation, listenerVars, historyVars>>

\* lines 234-238: Input::poll; Escape (or the window's close button) closes the window
MainPoll ==
    /\ mpc = "poll"
    /\ windowOpen' \in BOOLEAN
    /\ mpc' = "check_newData"
    /\ UNCHANGED <<udpEnabled, sharedVars, cameraMode, cameraPose, argPosition,
                   argRotation, listenerVars, historyVars>>


\* MainCheckNewData taking the lock before the flag is looked at
MainCheckNewData_LockFirst ==
    /\ mpc = "check_newData"
    /\ mpc' = IF _newData THEN "clear_newData" ELSE "lock"
    /\ seenAtCheck' = published
    /\ UNCHANGED <<udpEnabled, sharedVars, windowOpen, cameraMode, cameraPose,
                   argPosition, argRotation, listenerVars, nrecv, received, lastWritten,
                   published, unread>>

\* line 243: if (_newData)
MainCheckNewData ==
    /\ mpc = "check_newData"
    /\ mpc' = IF _newData THEN "clear_newData" ELSE "render"
    /\ seenAtCheck' = published
    /\ UNCHANGED <<udpEnabled, sharedVars, windowOpen, cameraMode, cameraPose,
                   argPosition, argRotation, listenerVars, nrecv, received, lastWritten,
                   published, unread>>

\* line 244: _newData = false
MainClearNewData ==
    /\ mpc = "clear_newData"
    /\ _newData' = FALSE
    /\ mpc' = "lock"
    /\ UNCHANGED <<udpEnabled, _running, cameraTransform, mutex, windowOpen, cameraMode,
                   cameraPose, argPosition, argRotation, listenerVars, historyVars>>


\* MainLock without the lock_guard: main reads the slot whoever holds the mutex
MainLock_NoLock ==
    /\ mpc = "lock"
    /\ mpc' = "read_position"
    /\ UNCHANGED <<udpEnabled, sharedVars, windowOpen, cameraMode, cameraPose,
                   argPosition, argRotation, listenerVars, historyVars>>

\* line 245: std::lock_guard lock(cameraTransformMutex)
MainLock ==
    /\ mpc = "lock"
    /\ mutex = "free"
    /\ mutex' = "main"
    /\ mpc' = "read_position"
    /\ UNCHANGED <<udpEnabled, _running, _newData, cameraTransform, windowOpen,
                   cameraMode, cameraPose, argPosition, argRotation, listenerVars,
                   historyVars>>

\* line 246: cameraTransform->position; through a null pointer the program is lost
MainReadPosition ==
    /\ mpc = "read_position"
    /\ IF cameraTransform.allocated
       THEN /\ argPosition' = cameraTransform.position
            /\ mpc' = "read_rotation"
       ELSE /\ argPosition' = argPosition
            /\ mpc' = "crashed"
    /\ unread' = FALSE
    /\ UNCHANGED <<udpEnabled, sharedVars, windowOpen, cameraMode, cameraPose,
                   argRotation, listenerVars, nrecv, received, lastWritten, published,
                   seenAtCheck>>


\* line 246: cameraTransform->rotation
MainReadRotation ==
    /\ mpc = "read_rotation"
    /\ argRotation' = cameraTransform.rotation
    /\ mpc' = "apply"
    /\ UNCHANGED <<udpEnabled, sharedVars, windowOpen, cameraMode, cameraPose,
                   argPosition, listenerVars, historyVars>>

\* line 246: generalCamera->updateCameraTransform(position, rotation)
MainApply ==
    /\ mpc = "apply"
    /\ cameraPose' = Pose(argPosition, argRotation)
    /\ mpc' = "unlock"
    /\ UNCHANGED <<udpEnabled, sharedVars, windowOpen, cameraMode, argPosition,
                   argRotation, listenerVars, historyVars>>

\* line 247: the end of the if block destroys the lock_guard
MainUnlock ==
    /\ mpc = "unlock"
    /\ mutex' = "free"
    /\ mpc' = "render"
    /\ UNCHANGED <<udpEnabled, _running, _newData, cameraTransform, windowOpen,
                   cameraMode, cameraPose, argPosition, argRotation, listenerVars,
                   historyVars>>


\* MainRender with the dirty flag cleared at the end of the frame
MainRender_ClearsNewData ==
    /\ mpc = "render"
    /\ _newData' = FALSE
    /\ mpc' = "while"
    /\ UNCHANGED <<udpEnabled, _running, cameraTransform, mutex, windowOpen, cameraMode,
                   cameraPose, argPosition, argRotation, listenerVars, historyVars>>

\* lines 249-253: onUpdate, onRender, swapBuffer
MainRender ==
    /\ mpc = "render"
    /\ mpc' = "while"
    /\ UNCHANGED <<udpEnabled, sharedVars, windowOpen, cameraMode, cameraPose,
                   argPosition, argRotation, listenerVars, historyVars>>

\* lines 257-258: with udpEnabled, _running = false
MainCleanup ==
    /\ mpc = "cleanup"
    /\ IF udpEnabled
       THEN _running' = FALSE /\ mpc' = "join"
       ELSE _running' = _running /\ mpc' = "done"
    /\ UNCHANGED <<udpEnabled, _newData, cameraTransform, mutex, windowOpen, cameraMode,
                   cameraPose, argPosition, argRotation, listenerVars, historyVars>>

\* line 259: udpServerThread.join() returns when runUDPServer has returned
MainJoin ==
    /\ mpc = "join"
    /\ lpc = "returned"
    /\ mpc' = "done"
    /\ UNCHANGED <<udpEnabled, sharedVars, windowOpen, cameraMode, cameraPose,
                   argPosition, argRotation, listenerVars, historyVars>>

MainStep ==
    \/ MainStartUDP
    \/ MainSwitchMode
    \/ MainWhile
    \/ MainPoll
    \/ MainCheckNewData
    \/ MainClearNewData
    \/ MainLock
    \/ MainReadPosition
    \/ MainReadRotation
    \/ MainApply
    \/ MainUnlock
    \/ MainRender
    \/ MainCleanup
    \/ MainJoin

Next == MainStep \/ ListenerStep \/ ListenerReceiveReturns

Spec == Init /\ [][Next]_vars

\* both threads are scheduled; nothing makes the network deliver a datagram or
\* fail a receive
FairSpec == Spec /\ WF_vars(MainStep) /\ WF_vars(ListenerStep)

(***************************************************************************)
(* Claims                                                                  *)
(***************************************************************************)

\* main has just applied a pose (line 246 done, the lock still held)
Applied == mpc = "unlock"

\* the listener holds a received payload that does not decode
HoldsMalformed ==
    /\ lpc \in {"received", "parse"}
    /\ ~error
    /\ data.kind \notin {"none", "empty"}
    /\ ~WellFormed(data)

\* C1, as stated: a consume applies the pose of the last message of the sequence of
\* messages published in full (slot overwritten and _newData set) before the
\* consume began with its test of _newData.
C1_AppliesLastPublishedBeforeConsume ==
    Applied => cameraPose = seenAtCheck.last

\* C1, amended: a consume applies the position and orientation of the last message
\* whose overwrite of the slot was complete when the consume took the lock; that is
\* the last message published before the consume began unless the listener has
\* overwritten the slot since. No earlier message is applied by it.
C1_AppliesLastWritten ==
    /\ Applied => cameraPose = lastWritten
    /\ (Applied /\ published = seenAtCheck /\ lpc \notin {"update_unlock", "set_newData"})
          => cameraPose = seenAtCheck.last

\* C1 witness: two different messages were published in full before the consume
\* began, and the consume applied the second.
C1_Witness ==
    /\ Applied
    /\ seenAtCheck.n >= 2
    /\ Cardinality(received) >= 2
    /\ cameraPose = seenAtCheck.last

\* C2: no torn reads: every pose main has applied to the camera handler is the
\* position and orientation of one valid message the listener received.
C2_NoTornRead ==
    cameraPose # NoPose => cameraPose \in received

\* C2 witness: main has applied a pose under the lock while the listener waits for
\* the lock with a decoded message that differs from it in both fields.
C2_Witness ==
    /\ Applied
    /\ lpc = "update_lock"
    /\ position # cameraPose[1]
    /\ rotation # cameraPose[2]

\* C3: a malformed datagram is non-fatal to the listener: runUDPServer never
\* returns because a payload failed to decode, so it is still in its receive loop
\* for the next valid message.
C3_MalformedIsNonFatal ==
    exitCause # "exception"

\* C4: every step the listener takes with a payload that fails to decode leaves
\* the shared slot (created or not) and the dirty flag as they were.
C4_MalformedChangesNothing ==
    [][(HoldsMalformed /\ lpc' # lpc)
          => (cameraTransform' = cameraTransform /\ _newData' = _newData)]_vars

\* C4 witness: a payload failed to decode while the slot held a published pose
\* and the dirty flag was set.
C4_Witness ==
    /\ exitCause = "exception"
    /\ cameraTransform.allocated
    /\ _newData

\* C5: prompt shutdown: once main has set _running to false and waits in join, a
\* listener blocked in receive can go on by itself (a timeout, a wake-up), without
\* the network delivering a datagram or failing the receive.
C5_StopUnblocksReceive ==
    (mpc = "join" /\ ~_running /\ lpc = "receive") => ENABLED ListenerStep

\* C6: with Stop requested the listener starts no further receive and leaves the
\* loop at its next test of _running; after main's join has returned, neither the
\* slot nor the dirty flag is written.
C6_StopThenNoAccess ==
    [][/\ (~_running /\ lpc # "receive") => lpc' # "receive"
       /\ (~_running /\ lpc = "while" /\ lpc' # lpc) => lpc' = "returned"
       /\ mpc = "done" => (cameraTransform' = cameraTransform /\ _newData' = _newData)
      ]_vars

\* C6 witness: Stop arrived after messages were published; the listener left its
\* loop at the test of _running and main's join returned.
C6_Witness ==
    /\ mpc = "done"
    /\ exitCause = "stop"
    /\ published.n >= 1

\* C7: one received message causes at most one application of its pose: a
\* consume finds the dirty flag set and reads the slot only when the slot holds a
\* message that the listener wrote after the previous consume read the slot.
C7_OneApplicationPerMessage ==
    mpc = "read_position" => unread

\* C8: after a failed bind the listener has returned without a receive and without
\* a write of the slot or the dirty flag, main always has a next step until it is
\* done, and its join is not blocked.
C8_BindFailureStopsListenerOnly ==
    exitCause = "bind" =>
        /\ lpc = "returned"
        /\ nrecv = 0
        /\ cameraTransform = NullTransform
        /\ ~_newData
        /\ mpc # "done" => ENABLED MainStep
        /\ mpc = "join" => ENABLED MainJoin

\* C8 witness: the bind failed, main ran its render loop and its join returned.
C8_Witness ==
    /\ exitCause = "bind"
    /\ mpc = "done"
    /\ cameraMode = "JSON"

\* what main can read of the subsystem: the two flags, the slot, the camera
\* handler's mode, and whether the thread object is joinable
HostView ==
    [running |-> _running, newData |-> _newData, slot |-> cameraTransform,
     mode |-> cameraMode, joinable |-> lpc # "not_started"]

\* HostView once the listener is bound and waits for its first message
StartedHostView ==
    [running |-> TRUE, newData |-> FALSE, slot |-> NullTransform,
     mode |-> "JSON", joinable |-> TRUE]

\* C9: a bind failure surfaces to main: after a failed bind what main can read
\* differs from what it reads after a successful start.
C9_BindFailureSurfaces ==
    exitCause = "bind" => HostView # StartedHostView

\* C10: a receive error is non-fatal: the step that handles it leaves the slot
\* and the dirty flag unchanged and returns to the test of _running, which then
\* starts another receive if _running is true and leaves the loop if it is false.
C10_ReceiveErrorIsNonFatal ==
    [][/\ (lpc = "received" /\ error /\ lpc' # lpc)
            => /\ lpc' = "while"
               /\ cameraTransform' = cameraTransform
               /\ _newData' = _newData
       /\ (lpc = "while" /\ error /\ lpc' # lpc)
            => lpc' = (IF _running THEN "receive" ELSE "returned")
      ]_vars

\* C10 witness: a receive returned an error while a pose was published and
\* unconsumed; the listener is back at the test of _running, which is true.
C10_Witness ==
    /\ lpc = "while"
    /\ error
    /\ _running
    /\ _newData

\* main is inside the render loop (lines 232-254)
InRenderLoop ==
    mpc \in {"poll", "check_newData", "clear_newData", "lock", "read_position",
             "read_rotation", "apply", "unlock", "render"}

\* C11: non-blocking consume: main's test of the dirty flag is never blocked; when
\* the flag is false the step goes straight on to update and render, without the
\* lock, without a pose applied and with the slot and the flag unchanged, and the
\* update and render step is not blocked either, wherever the listener is.
C11_NonBlockingConsume ==
    /\ [](mpc = "check_newData" => ENABLED MainCheckNewData)
    /\ [](mpc = "render" => ENABLED MainRender)
    /\ [][(mpc = "check_newData" /\ ~_newData /\ mpc' # mpc)
             => /\ mpc' = "render"
                /\ mutex' = mutex
                /\ cameraPose' = cameraPose
                /\ cameraTransform' = cameraTransform
                /\ _newData' = _newData]_vars

\* C11 witness: no pose has been applied yet, so this tick found the flag false,
\* and main is at update and render while the listener is inside its critical section.
C11_Witness ==
    /\ mpc = "render"
    /\ cameraPose = NoPose
    /\ ~_newData
    /\ mutex = "listener"

\* C12: with the subsystem enabled the camera handler's mode changes exactly once,
\* to JSON, at startup; main is in JSON mode throughout the render loop, so every
\* pose is applied in JSON mode.
C12_ModeSwitchedOnceAtStartup ==
    /\ []((udpEnabled /\ InRenderLoop) => cameraMode = "JSON")
    /\ [](cameraPose # NoPose => cameraMode = "JSON")
    /\ [][cameraMode' # cameraMode
             => (mpc = "switch_mode" /\ cameraMode = "interactive" /\ cameraMode' = "JSON")
       ]_vars

\* C12 witness: a pose has just been applied, in JSON mode.
C12_Witness ==
    /\ Applied
    /\ cameraMode = "JSON"
    /\ cameraPose # NoPose

\* C13: with the enable flag off no listener is started, _running and _newData
\* stay false, the camera handler stays in its interactive mode, no pose is applied
\* and main does not join; with the flag on, main is done only after it has set
\* _running to false and the listener has returned.
C13_StartedOnlyIfEnabled ==
    /\ ~udpEnabled =>
          /\ lpc = "not_started"
          /\ ~_running
          /\ ~_newData
          /\ cameraMode = "interactive"
          /\ cameraPose = NoPose
          /\ mpc \notin {"switch_mode", "join"}
    /\ (udpEnabled /\ mpc = "done") => (~_running /\ lpc = "returned")

\* C13 witness: with the flag off main ran its render loop and returned.
C13_Witness ==
    /\ ~udpEnabled
    /\ mpc = "done"
    /\ ~windowOpen

\* C14: every access to the shared slot is made under the slot lock: the listener
\* holds it when it writes position and rotation and when it sets the dirty flag,
\* and main holds it when it clears the dirty flag and when it reads the pose.
C14_EveryAccessUnderLock ==
    /\ lpc \in {"update_position", "update_rotation", "set_newData"} => mutex = "listener"
    /\ mpc \in {"clear_newData", "read_position", "read_rotation"} => mutex = "main"

\* C15: main applies a consumed pose to the camera handler only after it has
\* released the slot lock: the apply is not executed while main holds the lock.
C15_ApplyOutsideLock ==
    mpc = "apply" => mutex # "main"

\* main is between its clearing of the dirty flag and its read of the slot
AboutToRead == mpc \in {"lock", "read_position"}

\* the listener has overwritten the slot and has not set the dirty flag yet
AboutToSignal == lpc \in {"update_unlock", "set_newData"}

\* C16: no lost update: a message in the slot that no consume has read is always
\* either signalled by the dirty flag, about to be signalled by the listener, or
\* about to be read by main; and when nothing is unread, the pose the camera handler
\* has is the last one written. If the render loop keeps ticking, every message
\* written to the slot is followed by the application of the slot's latest pose.
C16_NoLostUpdate ==
    /\ [](unread => (_newData \/ AboutToSignal \/ AboutToRead))
    /\ []((~unread /\ mpc \notin {"read_rotation", "apply"}) => cameraPose = lastWritten)
    /\ (([]<>(mpc = "check_newData")) => (unread ~> (Applied /\ ~unread)))

\* C16 witness: two different messages were published, the listener publishes no
\* more, and main, back at the top of its loop, has applied the second.
C16_Witness ==
    /\ mpc = "while"
    /\ lpc = "receive"
    /\ published.n = 2
    /\ Cardinality(received) = 2
    /\ ~unread
    /\ ~_newData
    /\ cameraPose = published.last

\* main is inside a consume, after it found the dirty flag set
InConsume ==
    mpc \in {"clear_newData", "lock", "read_position", "read_rotation", "apply", "unlock"}

\* C17: the slot is created by the first successful publish, not before, and is
\* never reset; the dirty flag is set only when the slot exists, so the slot exists
\* throughout every consume and main never reads through a null pointer.
C17_SlotExistsWhenRead ==
    /\ [](_newData => cameraTransform.allocated)
    /\ [](InConsume => cameraTransform.allocated)
    /\ [](mpc # "crashed")
    /\ [](cameraTransform.allocated <=> (lastWritten # NoPose \/ lpc = "update_rotation"))
    /\ [][cameraTransform.allocated => cameraTransform'.allocated]_vars

\* C17 witness: main reads the slot in the consume of the first message, no pose
\* having been applied before.
C17_Witness ==
    /\ mpc = "read_position"
    /\ cameraTransform.allocated
    /\ nrecv = 1
    /\ cameraPose = NoPose

\* the listener is inside updateCameraTransform's critical section (lines 55-60)
ListenerInCS == lpc \in {"update_position", "update_rotation", "update_unlock"}

\* main is inside its critical section (lines 246-247)
MainInCS == mpc \in {"read_position", "read_rotation", "apply", "unlock"}

\* C18: the listener holds the lock exactly while it overwrites the slot (not in
\* receive, not while decoding) and main exactly inside its consume's critical
\* section; the two are never inside together; a side that waits for the lock
\* waits for a holder that is inside its critical section and can go on, and takes
\* the lock when it is free.
C18_BlockOnlyForCriticalSection ==
    /\ mutex = "listener" <=> ListenerInCS
    /\ mutex = "main" <=> MainInCS
    /\ ~(ListenerInCS /\ MainInCS)
    /\ (lpc = "update_lock" /\ mutex # "free") => (MainInCS /\ ENABLED MainStep)
    /\ (mpc = "lock" /\ mutex # "free") => (ListenerInCS /\ ENABLED ListenerStep)
    /\ (lpc = "update_lock" /\ mutex = "free") => ENABLED ListenerLock
    /\ (mpc = "lock" /\ mutex = "free") => ENABLED MainLock

\* C18 witness: main waits for the lock while the listener is overwriting the slot.
C18_Witness ==
    /\ mpc = "lock"
    /\ mutex = "listener"
    /\ lpc = "update_rotation"

\* C19: a step of the listener thread never changes the camera handler's pose or
\* mode, the window, the running flag, or anything local to main.
C19_ListenerTouchesOnlySlot ==
    [][(lpc # "not_started" /\ lpc' # lpc)
          => UNCHANGED <<cameraPose, cameraMode, windowOpen, _running, udpEnabled,
                         mpc, argPosition, argRotation>>]_vars

\* C19 witness: the listener has published two messages and is back at the test of
\* _running; the camera handler has no pose, its mode is the one main set, the
\* window is open and _running is true.
C19_Witness ==
    /\ lpc = "while"
    /\ published.n = 2
    /\ cameraPose = NoPose
    /\ cameraMode = "JSON"
    /\ windowOpen
    /\ _running

====
